---------------------------- MODULE Spec2Model ----------------------------
(***************************************************************************)
(* A model of parse_network.py: build_replacements, the substitution loop  *)
(* of render_network_config, and extract_network_graph.                    *)
(*                                                                         *)
(* Python text is a sequence of one-character strings.  A parsed YAML      *)
(* value is a tagged record: Null, StrV(s), IntV(n), BoolV(b), ListV(seq)  *)
(* and MapV(f), f a function from field names to values.  A dict that the  *)
(* program builds and later iterates (the replacement table) is a sequence *)
(* of key/value entries in insertion order.                                *)
(***************************************************************************)
EXTENDS Integers, Sequences, FiniteSets, TLC

VARIABLES
    pc,                 \* position in the function being run
    replacements_raw,   \* build_replacements: the parsed replacements document
    mapping,            \* build_replacements: the table built so far
    replacements,       \* render_network_config: the table, in iteration order
    template,           \* render_network_config: the text as read from the file
    raw_text,           \* render_network_config: the text being rewritten
    next_key,           \* render_network_config: index of the next table entry
    network_cfg,        \* extract_network_graph: the resolved tree
    transit_gateways,   \* extract_network_graph: the collections built so far
    vpcs,
    tgw_attachments,
    dx_gateways,
    vpn_connections,
    cnfgw_endpoints,
    graph               \* extract_network_graph: the returned graph

vars == <<pc, replacements_raw, mapping, replacements, template, raw_text,
          next_key, network_cfg, transit_gateways, vpcs, tgw_attachments,
          dx_gateways, vpn_connections, cnfgw_endpoints, graph>>

----------------------------------------------------------------------------
(* Bounds of the model. *)

\* longest globalReplacements list
MaxItems == 2
\* most chunks a template text is assembled from
MaxChunks == 3
\* longest top-level or nested list of the resolved tree that is enumerated
MaxElems == 2

----------------------------------------------------------------------------
(* Sequences and text. *)

\* the sequences over S of length at most n
SeqsUpTo(S, n) == UNION {[1..m -> S] : m \in 0..n}

RECURSIVE Concat(_)
\* the concatenation of a sequence of sequences
Concat(ss) == IF ss = <<>> THEN <<>> ELSE Head(ss) \o Concat(Tail(ss))

\* s occurs in t at position i
OccursAt(s, t, i) ==
    /\ i >= 1
    /\ i + Len(s) - 1 <= Len(t)
    /\ \A j \in 1..Len(s) : t[i + j - 1] = s[j]

\* `s in t` of Python str
Contains(t, s) == \E i \in 1..(Len(t) + 1) : OccursAt(s, t, i)

\* the characters of the strings the program sorts, in code-point order
Alphabet ==
    <<" ", "$", ",", "-", "0", "1", "2", "5", "C", "F", "G", "N", "T", "W",
      "a", "b", "c", "e", "f", "g", "j", "k", "n", "o", "r", "u", "v", "w",
      "x", "{", "}">>

\* the code-point rank of a character
Ord(c) == CHOOSE i \in 1..Len(Alphabet) : Alphabet[i] = c

\* str.lower on one character
LowerChar(c) ==
    CASE c = "C" -> "c"
      [] c = "F" -> "f"
      [] c = "G" -> "g"
      [] c = "N" -> "n"
      [] c = "T" -> "t"
      [] c = "W" -> "w"
      [] OTHER -> c

\* str.lower
Lower(s) == [i \in 1..Len(s) |-> LowerChar(s[i])]

RECURSIVE StrLess(_, _)
\* s < t of Python str: lexicographic by code point
StrLess(s, t) ==
    IF t = <<>> THEN FALSE
    ELSE IF s = <<>> THEN TRUE
    ELSE IF Head(s) = Head(t) THEN StrLess(Tail(s), Tail(t))
    ELSE Ord(Head(s)) < Ord(Head(t))

----------------------------------------------------------------------------
(* Python values. *)

Null == [k |-> "null"]
StrV(s) == [k |-> "str", v |-> s]
IntV(n) == [k |-> "int", v |-> n]
BoolV(b) == [k |-> "bool", v |-> b]
ListV(l) == [k |-> "list", v |-> l]
MapV(f) == [k |-> "map", v |-> f]

EmptyList == ListV(<<>>)
EmptyStr == StrV(<<>>)
\* the mapping with no fields
EmptyMap == MapV([f \in {} |-> Null])

IsDict(x) == x.k = "map"
IsList(x) == x.k = "list"
IsNone(x) == x.k = "null"

\* dict.get(key, default)
GetOr(d, key, default) == IF key \in DOMAIN d.v THEN d.v[key] ELSE default

\* dict.get(key)
Get(d, key) == GetOr(d, key, Null)

\* bool(x)
Truthy(x) ==
    CASE x.k = "null" -> FALSE
      [] x.k = "str" -> x.v # <<>>
      [] x.k = "int" -> x.v # 0
      [] x.k = "bool" -> x.v
      [] x.k = "list" -> x.v # <<>>
      [] x.k = "map" -> DOMAIN x.v # {}

\* x or y
Or(x, y) == IF Truthy(x) THEN x ELSE y

RECURSIVE Digits(_)
\* the decimal digits of a natural number
Digits(n) ==
    LET d == <<"0", "1", "2", "3", "4", "5", "6", "7", "8", "9">>[(n % 10) + 1]
    IN  IF n < 10 THEN <<d>> ELSE Digits(n \div 10) \o <<d>>

\* str(x), which is also what an f-string field formats; scalars only
PyStr(x) ==
    CASE x.k = "null" -> <<"N", "o", "n", "e">>
      [] x.k = "str" -> x.v
      [] x.k = "int" -> IF x.v < 0 THEN <<"-">> \o Digits(-x.v) ELSE Digits(x.v)
      [] x.k = "bool" -> IF x.v THEN <<"T", "r", "u", "e">>
                         ELSE <<"F", "a", "l", "s", "e">>

\* for ... in x raises TypeError
NotIterable(x) == x.k \in {"null", "int", "bool"}

RECURSIVE SetToSeq(_)
SetToSeq(S) ==
    IF S = {} THEN <<>>
    ELSE LET x == CHOOSE y \in S : TRUE IN <<x>> \o SetToSeq(S \ {x})

\* the sequence `for e in x` walks: a list's elements, a str's characters,
\* a dict's keys (a key is a str, kept here as the field name it is)
Iter(x) ==
    CASE x.k = "list" -> x.v
      [] x.k = "str" -> [i \in 1..Len(x.v) |-> StrV(<<x.v[i]>>)]
      [] x.k = "map" -> LET ks == SetToSeq(DOMAIN x.v)
                        IN  [i \in 1..Len(ks) |-> [k |-> "key", v |-> ks[i]]]

RECURSIVE Dicts_UpToFirstOther(_)
\* a filter that gives up at the first element that is no mapping
Dicts_UpToFirstOther(es) ==
    IF es = <<>> \/ ~IsDict(Head(es)) THEN <<>>
    ELSE <<Head(es)>> \o Dicts_UpToFirstOther(Tail(es))

RECURSIVE Dicts(_)
\* the elements of a walked sequence that pass `isinstance(e, dict)`
Dicts(es) ==
    IF es = <<>> THEN <<>>
    ELSE IF IsDict(Head(es)) THEN <<Head(es)>> \o Dicts(Tail(es))
    ELSE Dicts(Tail(es))

----------------------------------------------------------------------------
(* build_replacements *)

sString == <<"S", "t", "r", "i", "n", "g">>
sStringList == <<"S", "t", "r", "i", "n", "g", "L", "i", "s", "t">>

\* the index of key in the dict d, 0 when d has no such key
DictIndex(d, key) ==
    IF \E i \in 1..Len(d) : d[i].key = key
    THEN CHOOSE i \in 1..Len(d) : d[i].key = key
    ELSE 0

\* d[key] = value: a new key goes last, a known key keeps its place
DictSet(d, key, value) ==
    IF DictIndex(d, key) = 0
    THEN Append(d, [key |-> key, value |-> value])
    ELSE [d EXCEPT ![DictIndex(d, key)].value = value]

\* StringListValue with the scalar left unwrapped
StringListValue_Unwrapped(value) == IF IsNone(value) THEN EmptyList ELSE value

\* the value a StringList entry stores
StringListValue(value) ==
    IF ~IsList(value)
    THEN IF ~IsNone(value) THEN ListV(<<value>>) ELSE EmptyList
    ELSE value

\* the value an entry of any other type stores
StringValue(value) == IF IsNone(value) THEN EmptyStr ELSE StrV(PyStr(value))

\* one iteration of the loop over globalReplacements
BuildItem(m, item) ==
    IF ~IsDict(item) THEN m
    ELSE LET key == Get(item, "key")
             type_ == GetOr(item, "type", StrV(sString))
             value == Get(item, "value")
         IN  IF IsNone(key) THEN m
             ELSE IF type_ = StrV(sStringList)
                  THEN DictSet(m, PyStr(key), StringListValue(value))
                  ELSE DictSet(m, PyStr(key), StringValue(value))

RECURSIVE BuildLoop(_, _)
BuildLoop(m, items) ==
    IF items = <<>> THEN m
    ELSE BuildLoop(BuildItem(m, Head(items)), Tail(items))

build_replacements(raw) ==
    IF ~IsDict(raw) THEN <<>>
    ELSE LET items == GetOr(raw, "globalReplacements", EmptyList)
         IN  IF ~IsList(items) THEN <<>> ELSE BuildLoop(<<>>, items.v)

----------------------------------------------------------------------------
(* render_network_config: the substitution loop *)

\* Replace that stops after the first occurrence
Replace_FirstOnly(text, old, new) ==
    IF \E i \in 1..Len(text) : OccursAt(old, text, i)
    THEN LET i == CHOOSE n \in 1..Len(text) :
                    /\ OccursAt(old, text, n)
                    /\ \A h \in 1..(n - 1) : ~OccursAt(old, text, h)
         IN  SubSeq(text, 1, i - 1) \o new
                 \o SubSeq(text, i + Len(old), Len(text))
    ELSE text

RECURSIVE Replace(_, _, _)
\* text.replace(old, new): every non-overlapping occurrence, leftmost first,
\* the inserted text not scanned again (old is never empty here)
Replace(text, old, new) ==
    IF Len(text) < Len(old) THEN text
    ELSE IF OccursAt(old, text, 1)
         THEN new \o Replace(SubSeq(text, Len(old) + 1, Len(text)), old, new)
         ELSE <<Head(text)>> \o Replace(Tail(text), old, new)

RECURSIVE Join(_, _)
\* sep.join(strs)
Join(sep, strs) ==
    IF strs = <<>> THEN <<>>
    ELSE IF Len(strs) = 1 THEN Head(strs)
    ELSE Head(strs) \o sep \o Join(sep, Tail(strs))

\* f"{{{{ {key} }}}}"
Spaced(key) == <<"{", "{", " ">> \o key \o <<" ", "}", "}">>

\* f"{{{{{key}}}}}"
Unspaced(key) == <<"{", "{">> \o key \o <<"}", "}">>

\* f"${{{key}}}"
Dollar(key) == <<"$", "{">> \o key \o <<"}">>

\* replacement_str
ReplacementStr(value) ==
    IF IsList(value)
    THEN Join(<<",">>, [i \in 1..Len(value.v) |-> PyStr(value.v[i])])
    ELSE PyStr(value)

\* RenderEntry without the ${Key} pass
RenderEntry_NoDollar(text, entry) ==
    LET r == ReplacementStr(entry.value)
        t1 == Replace(text, Spaced(entry.key), r)
    IN  Replace(t1, Unspaced(entry.key), r)

\* the three passes of one table entry
RenderEntry(text, entry) ==
    LET r == ReplacementStr(entry.value)
        t1 == Replace(text, Spaced(entry.key), r)
        t2 == Replace(t1, Unspaced(entry.key), r)
    IN  Replace(t2, Dollar(entry.key), r)

\* one iteration of the loop over replacements.items()
RenderKey ==
    /\ pc = "render"
    /\ next_key <= Len(replacements)
    /\ raw_text' = RenderEntry(raw_text, replacements[next_key])
    /\ next_key' = next_key + 1
    /\ UNCHANGED <<pc, replacements_raw, mapping, replacements, template,
                   network_cfg, transit_gateways, vpcs, tgw_attachments,
                   dx_gateways, vpn_connections, cnfgw_endpoints, graph>>

\* the loop is over: the text goes to the YAML parser
RenderParse ==
    /\ pc = "render"
    /\ next_key > Len(replacements)
    /\ pc' = "rendered"
    /\ UNCHANGED <<replacements_raw, mapping, replacements, template, raw_text,
                   next_key, network_cfg, transit_gateways, vpcs,
                   tgw_attachments, dx_gateways, vpn_connections,
                   cnfgw_endpoints, graph>>

----------------------------------------------------------------------------
(* extract_network_graph *)

sUnknown == <<"u", "n", "k", "n", "o", "w", "n">>
sCnfgw == <<"c", "n", "f", "g", "w">>
sPaloAltoCnfgw ==
    <<"p", "a", "l", "o", "_", "a", "l", "t", "o", "_", "c", "n", "f", "g", "w">>

\* the sequence [F(s[1]), F(s[2]), ...]
Each(s, F(_)) == [i \in 1..Len(s) |-> F(s[i])]

\* `for e in d.get(key, [])` raises TypeError
WalkRaises(d, key) == NotIterable(GetOr(d, key, EmptyList))

\* the mappings among the elements `for e in d.get(key, [])` walks
DictsOf(d, key) == Dicts(Iter(GetOr(d, key, EmptyList)))

\* f"{a}-{b}"
Dashed(a, b) == StrV(PyStr(a) \o <<"-">> \o PyStr(b))

(* ---- Transit Gateways ---- *)

TgwEntry(tgw) ==
    [id |-> Get(tgw, "name"),
     name |-> Get(tgw, "name"),
     account |-> Get(tgw, "account"),
     region |-> Get(tgw, "region"),
     asn |-> Get(tgw, "asn")]

TransitGatewaysRaise(cfg) == ~IsDict(cfg) \/ WalkRaises(cfg, "transitGateways")

TransitGateways(cfg) == Each(DictsOf(cfg, "transitGateways"), TgwEntry)

(* ---- VPCs & Subnets ---- *)

\* cidr, for a VPC whose `cidrs` comes before its `cidr`
VpcCidr_CidrFirst(vpc) ==
    IF Truthy(Get(vpc, "cidr")) THEN Get(vpc, "cidr")
    ELSE IF Truthy(GetOr(vpc, "cidrs", EmptyList))
            /\ IsList(GetOr(vpc, "cidrs", EmptyList))
    THEN GetOr(vpc, "cidrs", EmptyList).v[1]
    ELSE Or(Get(vpc, "ipv4CidrBlock"), Get(vpc, "ipv4Cidr"))

\* cidr
VpcCidr(vpc) ==
    LET cidrs == GetOr(vpc, "cidrs", EmptyList)
    IN  IF Truthy(cidrs) /\ IsList(cidrs)
        THEN cidrs.v[1]
        ELSE Or(Get(vpc, "cidr"),
                Or(Get(vpc, "ipv4CidrBlock"), Get(vpc, "ipv4Cidr")))

\* subnet_id
SubnetId(vpc_id, subnet_name) ==
    IF Truthy(vpc_id) /\ Truthy(subnet_name)
    THEN Dashed(vpc_id, subnet_name)
    ELSE subnet_name

SubnetEntry(vpc_id, subnet) ==
    [id |-> SubnetId(vpc_id, Get(subnet, "name")),
     name |-> Get(subnet, "name"),
     cidr |-> Or(Get(subnet, "cidr"),
                 Or(Get(subnet, "ipv4CidrBlock"), Get(subnet, "ipv4Cidr"))),
     az |-> Or(Get(subnet, "availabilityZone"), Get(subnet, "az")),
     type |-> Or(Get(subnet, "type"),
                 Or(Get(subnet, "subnetType"),
                    Or(Get(subnet, "tier"), StrV(sUnknown))))]

\* the subnets list of one VPC
Subnets(vpc) ==
    LET Entry(subnet) == SubnetEntry(Get(vpc, "name"), subnet)
    IN  Each(DictsOf(vpc, "subnets"), Entry)

\* {s["az"] for s in subnets if s.get("az")}
AzSet(subnets) ==
    {subnets[i].az : i \in {n \in 1..Len(subnets) : Truthy(subnets[n].az)}}

\* a < b of two str or of two int
Less(a, b) == IF a.k = "str" THEN StrLess(a.v, b.v) ELSE a.v < b.v

\* building the set raises TypeError (an unhashable az), or sorting it does
\* (a str compared with a number)
SortedRaises(subnets) ==
    LET kinds == {x.k : x \in AzSet(subnets)}
    IN  \/ kinds \cap {"list", "map"} # {}
        \/ "str" \in kinds /\ kinds \cap {"int", "bool"} # {}

RECURSIVE Ascending(_)
\* the elements of a set in ascending order
Ascending(S) ==
    IF S = {} THEN <<>>
    ELSE LET least == CHOOSE x \in S : \A y \in S \ {x} : Less(x, y)
         IN  <<least>> \o Ascending(S \ {least})

\* the az of every subnet that has one, in subnet order
Azs_SubnetOrder(subnets) ==
    LET Az(s) == s.az
    IN  Each(SelectSeq(subnets, LAMBDA s : Truthy(s.az)), Az)

\* sorted({s["az"] for s in subnets if s.get("az")})
Azs(subnets) == Ascending(AzSet(subnets))

VpcEntry(cfg, vpc) ==
    [id |-> Get(vpc, "name"),
     name |-> Get(vpc, "name"),
     account |-> GetOr(vpc, "account", StrV(sUnknown)),
     region |-> GetOr(vpc, "region", Get(cfg, "region")),
     cidr |-> VpcCidr(vpc),
     azs |-> Azs(Subnets(vpc)),
     subnets |-> Subnets(vpc)]

\* tgw_name
TgwName(attachment) ==
    LET tgw_ref == Get(attachment, "transitGateway")
    IN  IF IsDict(tgw_ref) THEN Get(tgw_ref, "name") ELSE tgw_ref

\* att_name
AttName(vpc_id, attachment) ==
    IF Truthy(Get(attachment, "name"))
    THEN Get(attachment, "name")
    ELSE Dashed(vpc_id, TgwName(attachment))

\* one element of attachment_subnet_ids, with the names joined the other
\* way round
AttachmentSubnetId_Swapped(vpc_id, sn) ==
    IF Truthy(vpc_id) /\ Truthy(sn) THEN Dashed(sn, vpc_id) ELSE sn

\* one element of attachment_subnet_ids
AttachmentSubnetId(vpc_id, sn) ==
    IF Truthy(vpc_id) /\ Truthy(sn) THEN Dashed(vpc_id, sn) ELSE sn

AttachmentEntry(vpc_id, attachment) ==
    LET tgw_name == TgwName(attachment)
        att_name == AttName(vpc_id, attachment)
        RefId(sn) == AttachmentSubnetId(vpc_id, sn)
    IN  [id |-> IF Truthy(vpc_id) /\ Truthy(tgw_name)
                THEN Dashed(vpc_id, tgw_name)
                ELSE att_name,
         tgw_id |-> tgw_name,
         vpc_id |-> vpc_id,
         name |-> att_name,
         subnets |-> Each(Iter(GetOr(attachment, "subnets", EmptyList)), RefId),
         route_tables |->
             [tgw_association |-> Get(attachment, "routeTableAssociations"),
              tgw_propagations |->
                  GetOr(attachment, "routeTablePropagations", EmptyList)]]

\* the attachments one VPC adds to tgw_attachments
Attachments(vpc) ==
    LET Entry(attachment) == AttachmentEntry(Get(vpc, "name"), attachment)
    IN  Each(DictsOf(vpc, "transitGatewayAttachments"), Entry)

\* the body of the loop over vpcs raises for this VPC
VpcRaises(vpc) ==
    \/ WalkRaises(vpc, "subnets")
    \/ ~WalkRaises(vpc, "subnets") /\ SortedRaises(Subnets(vpc))
    \/ WalkRaises(vpc, "transitGatewayAttachments")
    \/ /\ ~WalkRaises(vpc, "transitGatewayAttachments")
       /\ \E i \in 1..Len(DictsOf(vpc, "transitGatewayAttachments")) :
             WalkRaises(DictsOf(vpc, "transitGatewayAttachments")[i], "subnets")

VpcsRaise(cfg) ==
    \/ WalkRaises(cfg, "vpcs")
    \/ /\ ~WalkRaises(cfg, "vpcs")
       /\ \E i \in 1..Len(DictsOf(cfg, "vpcs")) : VpcRaises(DictsOf(cfg, "vpcs")[i])

Vpcs(cfg) ==
    LET Entry(vpc) == VpcEntry(cfg, vpc)
    IN  Each(DictsOf(cfg, "vpcs"), Entry)

TgwAttachments(cfg) == Concat(Each(DictsOf(cfg, "vpcs"), Attachments))

(* ---- Direct Connect Gateways ---- *)

VifEntry(vif) ==
    [id |-> Get(vif, "name"),
     name |-> Get(vif, "name"),
     connection_id |-> Get(vif, "connectionId"),
     customer_asn |-> Get(vif, "customerAsn"),
     region |-> Get(vif, "region"),
     type |-> Get(vif, "type"),
     vlan |-> Get(vif, "vlan"),
     jumbo_frames |-> Get(vif, "jumboFrames")]

AssocEntry(assoc) ==
    [tgw_name |-> Get(assoc, "name"),
     account |-> Get(assoc, "account"),
     allowed_prefixes |-> GetOr(assoc, "allowedPrefixes", EmptyList),
     route_table_associations |->
         GetOr(assoc, "routeTableAssociations", EmptyList),
     route_table_propagations |->
         GetOr(assoc, "routeTablePropagations", EmptyList)]

DxEntry(dxgw) ==
    [id |-> Get(dxgw, "name"),
     name |-> Get(dxgw, "name"),
     account |-> Get(dxgw, "account"),
     asn |-> Get(dxgw, "asn"),
     virtual_interfaces |-> Each(DictsOf(dxgw, "virtualInterfaces"), VifEntry),
     tgw_associations |->
         Each(DictsOf(dxgw, "transitGatewayAssociations"), AssocEntry)]

DxGatewaysRaise(cfg) ==
    \/ WalkRaises(cfg, "directConnectGateways")
    \/ /\ ~WalkRaises(cfg, "directConnectGateways")
       /\ \E i \in 1..Len(DictsOf(cfg, "directConnectGateways")) :
             \/ WalkRaises(DictsOf(cfg, "directConnectGateways")[i],
                           "virtualInterfaces")
             \/ WalkRaises(DictsOf(cfg, "directConnectGateways")[i],
                           "transitGatewayAssociations")

DxGateways(cfg) == Each(DictsOf(cfg, "directConnectGateways"), DxEntry)

(* ---- VPN Connections via Customer Gateways ---- *)

VpnEntry(cgw, vpn) ==
    [name |-> Get(vpn, "name"),
     customer_gateway |-> Get(cgw, "name"),
     account |-> Get(cgw, "account"),
     region |-> Get(cgw, "region"),
     transit_gateway |-> Get(vpn, "transitGateway"),
     static_routes_only |-> Get(vpn, "staticRoutesOnly"),
     route_table_associations |->
         GetOr(vpn, "routeTableAssociations", EmptyList),
     route_table_propagations |->
         GetOr(vpn, "routeTablePropagations", EmptyList),
     tunnel_specifications |-> GetOr(vpn, "tunnelSpecifications", EmptyList)]

\* the connections one customer gateway adds to vpn_connections
CgwVpns(cgw) ==
    LET Entry(vpn) == VpnEntry(cgw, vpn)
    IN  Each(DictsOf(cgw, "vpnConnections"), Entry)

VpnConnectionsRaise(cfg) ==
    \/ WalkRaises(cfg, "customerGateways")
    \/ /\ ~WalkRaises(cfg, "customerGateways")
       /\ \E i \in 1..Len(DictsOf(cfg, "customerGateways")) :
             WalkRaises(DictsOf(cfg, "customerGateways")[i], "vpnConnections")

VpnConnections(cfg) == Concat(Each(DictsOf(cfg, "customerGateways"), CgwVpns))

(* ---- CNFGW Endpoints ---- *)

\* target_endpoint.lower() raises AttributeError: the value is truthy and
\* is not a str
LowerRaises(route) ==
    /\ Truthy(Get(route, "targetVpcEndpoint"))
    /\ Get(route, "targetVpcEndpoint").k # "str"

\* the test of the route, with the endpoint matched as it is written
IsCnfgw_CaseSensitive(route) ==
    /\ Truthy(Get(route, "targetVpcEndpoint"))
    /\ Contains(Get(route, "targetVpcEndpoint").v, sCnfgw)

\* target_endpoint and "cnfgw" in target_endpoint.lower()
IsCnfgw(route) ==
    /\ Truthy(Get(route, "targetVpcEndpoint"))
    /\ Contains(Lower(Get(route, "targetVpcEndpoint").v), sCnfgw)


EndpointEntry(tgw, rt, route) ==
    [id |-> Get(route, "targetVpcEndpoint"),
     name |-> Get(route, "targetVpcEndpoint"),
     tgw |-> Get(tgw, "name"),
     route_table |-> Get(rt, "name"),
     destination |-> Or(Get(route, "destinationCidrBlock"),
                        Get(route, "destination")),
     type |-> StrV(sPaloAltoCnfgw)]

\* the endpoints one route table adds to cnfgw_endpoints
RtEndpoints(tgw, rt) ==
    LET Entry(route) == EndpointEntry(tgw, rt, route)
    IN  Each(SelectSeq(DictsOf(rt, "routes"), IsCnfgw), Entry)

\* the endpoints one transit gateway adds
TgwEndpoints(tgw) ==
    LET OfTable(rt) == RtEndpoints(tgw, rt)
    IN  Concat(Each(DictsOf(tgw, "routeTables"), OfTable))

RtRaises(rt) ==
    \/ WalkRaises(rt, "routes")
    \/ /\ ~WalkRaises(rt, "routes")
       /\ \E i \in 1..Len(DictsOf(rt, "routes")) :
             LowerRaises(DictsOf(rt, "routes")[i])

TgwRaises(tgw) ==
    \/ WalkRaises(tgw, "routeTables")
    \/ /\ ~WalkRaises(tgw, "routeTables")
       /\ \E i \in 1..Len(DictsOf(tgw, "routeTables")) :
             RtRaises(DictsOf(tgw, "routeTables")[i])

CnfgwEndpointsRaise(cfg) ==
    /\ Truthy(Get(cfg, "transitGateways"))
    /\ \E i \in 1..Len(DictsOf(cfg, "transitGateways")) :
          TgwRaises(DictsOf(cfg, "transitGateways")[i])

CnfgwEndpoints(cfg) ==
    IF Truthy(Get(cfg, "transitGateways"))
    THEN Concat(Each(DictsOf(cfg, "transitGateways"), TgwEndpoints))
    ELSE <<>>

(* ---- the function, section by section ---- *)

\* a section raised: the exception leaves the function, and main
Raise ==
    /\ pc' = "raised"
    /\ UNCHANGED <<transit_gateways, vpcs, tgw_attachments, dx_gateways,
                   vpn_connections, cnfgw_endpoints, graph>>

ExtractTransitGateways ==
    /\ pc = "transit_gateways"
    /\ IF TransitGatewaysRaise(network_cfg) THEN Raise
       ELSE /\ transit_gateways' = TransitGateways(network_cfg)
            /\ pc' = "vpcs"
            /\ UNCHANGED <<vpcs, tgw_attachments, dx_gateways,
                           vpn_connections, cnfgw_endpoints, graph>>
    /\ UNCHANGED <<replacements_raw, mapping, replacements, template,
                   raw_text, next_key, network_cfg>>

ExtractVpcs ==
    /\ pc = "vpcs"
    /\ IF VpcsRaise(network_cfg) THEN Raise
       ELSE /\ vpcs' = Vpcs(network_cfg)
            /\ tgw_attachments' = TgwAttachments(network_cfg)
            /\ pc' = "dx_gateways"
            /\ UNCHANGED <<transit_gateways, dx_gateways, vpn_connections,
                           cnfgw_endpoints, graph>>
    /\ UNCHANGED <<replacements_raw, mapping, replacements, template,
                   raw_text, next_key, network_cfg>>

ExtractDxGateways ==
    /\ pc = "dx_gateways"
    /\ IF DxGatewaysRaise(network_cfg) THEN Raise
       ELSE /\ dx_gateways' = DxGateways(network_cfg)
            /\ pc' = "vpn_connections"
            /\ UNCHANGED <<transit_gateways, vpcs, tgw_attachments,
                           vpn_connections, cnfgw_endpoints, graph>>
    /\ UNCHANGED <<replacements_raw, mapping, replacements, template,
                   raw_text, next_key, network_cfg>>

ExtractVpnConnections ==
    /\ pc = "vpn_connections"
    /\ IF VpnConnectionsRaise(network_cfg) THEN Raise
       ELSE /\ vpn_connections' = VpnConnections(network_cfg)
            /\ pc' = "cnfgw_endpoints"
            /\ UNCHANGED <<transit_gateways, vpcs, tgw_attachments,
                           dx_gateways, cnfgw_endpoints, graph>>
    /\ UNCHANGED <<replacements_raw, mapping, replacements, template,
                   raw_text, next_key, network_cfg>>

ExtractCnfgwEndpoints ==
    /\ pc = "cnfgw_endpoints"
    /\ IF CnfgwEndpointsRaise(network_cfg) THEN Raise
       ELSE /\ cnfgw_endpoints' = CnfgwEndpoints(network_cfg)
            /\ pc' = "return"
            /\ UNCHANGED <<transit_gateways, vpcs, tgw_attachments,
                           dx_gateways, vpn_connections, graph>>
    /\ UNCHANGED <<replacements_raw, mapping, replacements, template,
                   raw_text, next_key, network_cfg>>

ReturnGraph ==
    /\ pc = "return"
    /\ graph' = [transit_gateways |-> transit_gateways,
                 vpcs |-> vpcs,
                 tgw_attachments |-> tgw_attachments,
                 dx_gateways |-> dx_gateways,
                 vpn_connections |-> vpn_connections,
                 cnfgw_endpoints |-> cnfgw_endpoints]
    /\ pc' = "done"
    /\ UNCHANGED <<replacements_raw, mapping, replacements, template,
                   raw_text, next_key, network_cfg, transit_gateways, vpcs,
                   tgw_attachments, dx_gateways, vpn_connections,
                   cnfgw_endpoints>>

----------------------------------------------------------------------------
(* The values of the variables a run does not use. *)

IdleBuild == replacements_raw = Null /\ mapping = <<>>

IdleRender ==
    /\ replacements = <<>>
    /\ template = <<>>
    /\ raw_text = <<>>
    /\ next_key = 1

IdleExtract ==
    /\ network_cfg = Null
    /\ transit_gateways = <<>>
    /\ vpcs = <<>>
    /\ tgw_attachments = <<>>
    /\ dx_gateways = <<>>
    /\ vpn_connections = <<>>
    /\ cnfgw_endpoints = <<>>
    /\ graph = Null

----------------------------------------------------------------------------
(* A run of build_replacements over a parsed replacements document. *)

sK == <<"k">>
sJ == <<"j">>
sA == <<"a">>
sB == <<"b">>
sV == <<"v">>
sW == <<"w">>
sX == <<"x">>

\* the elements globalReplacements lists are drawn from
ReplacementItems ==
    { StrV(sX),
      MapV([key |-> StrV(sK), type |-> StrV(sStringList)]),
      MapV([key |-> StrV(sK), type |-> StrV(sStringList), value |-> Null]),
      MapV([key |-> StrV(sK), type |-> StrV(sStringList), value |-> StrV(sA)]),
      MapV([key |-> StrV(sK), type |-> StrV(sStringList), value |-> IntV(5)]),
      MapV([key |-> StrV(sK), type |-> StrV(sStringList),
            value |-> ListV(<<StrV(sA), StrV(sB)>>)]),
      MapV([key |-> StrV(sK), type |-> StrV(sStringList),
            value |-> ListV(<<IntV(1), StrV(sA)>>)]),
      MapV([key |-> StrV(sJ), type |-> StrV(sStringList), value |-> BoolV(TRUE)]),
      MapV([key |-> StrV(sK), type |-> StrV(sString), value |-> IntV(5)]),
      MapV([key |-> StrV(sJ), value |-> StrV(sV)]),
      MapV([key |-> StrV(sK)]),
      MapV([type |-> StrV(sStringList), value |-> StrV(sA)]),
      MapV([key |-> IntV(2), type |-> StrV(sStringList), value |-> StrV(sA)]) }

\* the replacements documents a run starts from
ReplacementDocs ==
    { MapV([globalReplacements |-> ListV(l)]) :
        l \in SeqsUpTo(ReplacementItems, MaxItems) }
    \cup { Null, EmptyList, EmptyMap, MapV([globalReplacements |-> Null]),
           MapV([globalReplacements |-> StrV(sX)]) }

InitBuild ==
    /\ pc = "build"
    /\ replacements_raw \in ReplacementDocs
    /\ mapping = <<>>
    /\ IdleRender
    /\ IdleExtract

\* repl_map = build_replacements(replacements_raw)
Build ==
    /\ pc = "build"
    /\ mapping' = build_replacements(replacements_raw)
    /\ pc' = "built"
    /\ UNCHANGED <<replacements_raw, replacements, template, raw_text,
                   next_key, network_cfg, transit_gateways, vpcs,
                   tgw_attachments, dx_gateways, vpn_connections,
                   cnfgw_endpoints, graph>>

NextBuild == Build

SpecBuild == InitBuild /\ [][NextBuild]_vars

\* the items of the document's globalReplacements list, none when the
\* document has no such list
ItemsOf(raw) ==
    IF IsDict(raw) /\ IsList(GetOr(raw, "globalReplacements", EmptyList))
    THEN GetOr(raw, "globalReplacements", EmptyList).v
    ELSE <<>>

\* item i is a mapping with a key
Keyed(items, i) == IsDict(items[i]) /\ ~IsNone(Get(items[i], "key"))

\* item i is the last one that sets its key, and is of type StringList
LastStringList(items, i) ==
    /\ Keyed(items, i)
    /\ Get(items[i], "type") = StrV(sStringList)
    /\ \A j \in (i + 1)..Len(items) :
          Keyed(items, j) =>
              PyStr(Get(items[j], "key")) # PyStr(Get(items[i], "key"))

\* the value the table holds under the key of item i
Stored(items, i) ==
    mapping[DictIndex(mapping, PyStr(Get(items[i], "key")))].value

\* C2 as stated: every StringList entry is stored as a sequence whose every
\* element is a string, whatever the source value was.
C2_StringListOfStrings ==
    pc = "built" =>
        LET items == ItemsOf(replacements_raw)
        IN  \A i \in 1..Len(items) :
              LastStringList(items, i) =>
                  /\ IsList(Stored(items, i))
                  /\ \A n \in 1..Len(Stored(items, i).v) :
                        Stored(items, i).v[n].k = "str"

\* C2 amended: every StringList entry is stored as a sequence: the source
\* sequence itself, elements unchanged, when the source is a sequence; the
\* one-element sequence holding the source value unchanged when the source is
\* a scalar; the empty sequence when the source is null or absent.
C2_StringListIsList ==
    pc = "built" =>
        LET items == ItemsOf(replacements_raw)
        IN  \A i \in 1..Len(items) :
              LastStringList(items, i) =>
                  LET value == Get(items[i], "value")
                      stored == Stored(items, i)
                  IN  /\ DictIndex(mapping, PyStr(Get(items[i], "key"))) # 0
                      /\ IsList(stored)
                      /\ IsList(value) => stored = value
                      /\ IsNone(value) => stored.v = <<>>
                      /\ ~IsList(value) /\ ~IsNone(value) =>
                            stored.v = <<value>>

\* a StringList entry whose source is a bare scalar that is not a string has
\* been stored
C2_Witness ==
    /\ pc = "built"
    /\ \E i \in 1..Len(ItemsOf(replacements_raw)) :
          /\ LastStringList(ItemsOf(replacements_raw), i)
          /\ Get(ItemsOf(replacements_raw)[i], "value") = IntV(5)
          /\ Stored(ItemsOf(replacements_raw), i) = ListV(<<IntV(5)>>)

----------------------------------------------------------------------------
(* A run of the substitution loop over a template text and a table. *)

\* the pieces template texts are assembled from: the three placeholder forms
\* of key k, a placeholder of key j, one of a key no table holds, plain text,
\* and stray delimiters
Chunks ==
    { Spaced(sK), Unspaced(sK), Dollar(sK), Dollar(sJ), Unspaced(sX),
      <<"a">>, <<"{", "{">>, <<"k", "}", "}">> }

Templates == { Concat(cs) : cs \in SeqsUpTo(Chunks, MaxChunks) }

\* the tables a run starts from, each one a table build_replacements can return
Tables ==
    { <<[key |-> sK, value |-> StrV(sV)]>>,
      <<[key |-> sK, value |-> EmptyStr]>>,
      <<[key |-> sK, value |-> ListV(<<StrV(sA), StrV(sB)>>)]>>,
      <<[key |-> sK, value |-> ListV(<<IntV(1), StrV(sA)>>)]>>,
      <<[key |-> sK, value |-> StrV(sX \o Unspaced(sK))]>>,
      <<[key |-> sK, value |-> StrV(sV)], [key |-> sJ, value |-> StrV(sW)]>>,
      <<[key |-> sJ, value |-> StrV(sW)], [key |-> sK, value |-> StrV(Dollar(sJ))]>>,
      <<[key |-> sK, value |-> StrV(Dollar(sJ))], [key |-> sJ, value |-> StrV(sW)]>> }

InitRender ==
    /\ pc = "render"
    /\ replacements \in Tables
    /\ template \in Templates
    /\ raw_text = template
    /\ next_key = 1
    /\ IdleBuild
    /\ IdleExtract

NextRender == RenderKey \/ RenderParse

SpecRender == InitRender /\ [][NextRender]_vars

Delimiters == {"{", "}", "$"}

\* no character of s is a delimiter
NoDelimiter(s) == \A i \in 1..Len(s) : s[i] \notin Delimiters

\* the first position from i on that holds a delimiter or a space, or the
\* position after the text
NameEnd(t, i) ==
    IF \E j \in i..Len(t) : t[j] \in Delimiters \cup {" "}
    THEN CHOOSE j \in i..Len(t) :
            /\ t[j] \in Delimiters \cup {" "}
            /\ \A h \in i..(j - 1) : t[h] \notin Delimiters \cup {" "}
    ELSE Len(t) + 1

\* the length of the placeholder {{ X }}, {{X}} or ${X} the text starts with,
\* X a name without delimiters or spaces; 0 when it starts with none
PlaceholderLen(t) ==
    IF OccursAt(<<"{", "{", " ">>, t, 1)
          /\ OccursAt(<<" ", "}", "}">>, t, NameEnd(t, 4))
    THEN NameEnd(t, 4) + 2
    ELSE IF OccursAt(<<"{", "{">>, t, 1) /\ OccursAt(<<"}", "}">>, t, NameEnd(t, 3))
    THEN NameEnd(t, 3) + 1
    ELSE IF OccursAt(<<"$", "{">>, t, 1) /\ OccursAt(<<"}">>, t, NameEnd(t, 3))
    THEN NameEnd(t, 3)
    ELSE 0

RECURSIVE WellFormed(_)
\* every delimiter of the text belongs to a placeholder {{ X }}, {{X}} or ${X}
WellFormed(t) ==
    IF t = <<>> THEN TRUE
    ELSE IF Head(t) \notin Delimiters THEN WellFormed(Tail(t))
    ELSE /\ PlaceholderLen(t) > 0
         /\ WellFormed(SubSeq(t, PlaceholderLen(t) + 1, Len(t)))

\* no key and no replacement string of the table holds a delimiter, and no
\* key holds a space
CleanTable(table) ==
    \A i \in 1..Len(table) :
        /\ NoDelimiter(table[i].key)
        /\ " " \notin {table[i].key[n] : n \in 1..Len(table[i].key)}
        /\ NoDelimiter(ReplacementStr(table[i].value))

\* one of the three placeholder forms of key starts the text
FormAt(t, key) ==
    IF OccursAt(Spaced(key), t, 1) THEN Spaced(key)
    ELSE IF OccursAt(Unspaced(key), t, 1) THEN Unspaced(key)
    ELSE IF OccursAt(Dollar(key), t, 1) THEN Dollar(key)
    ELSE <<>>

RECURSIVE Resolved(_, _)
\* the text with every placeholder of a table key, in any of the three forms,
\* replaced by that key's replacement string, and everything else kept
Resolved(t, table) ==
    IF t = <<>> THEN <<>>
    ELSE IF \E i \in 1..Len(table) : FormAt(t, table[i].key) # <<>>
    THEN LET i == CHOOSE n \in 1..Len(table) : FormAt(t, table[n].key) # <<>>
             form == FormAt(t, table[i].key)
         IN  ReplacementStr(table[i].value)
                 \o Resolved(SubSeq(t, Len(form) + 1, Len(t)), table)
    ELSE <<Head(t)>> \o Resolved(Tail(t), table)

\* some placeholder of some table key occurs in the text
PlaceholderLeft(t, table) ==
    \E i \in 1..Len(table) :
        \/ Contains(t, Spaced(table[i].key))
        \/ Contains(t, Unspaced(table[i].key))
        \/ Contains(t, Dollar(table[i].key))

\* C3 as stated: rendering replaces every occurrence of the three placeholder
\* forms of a table key by the key's replacement string, the same for the
\* three forms, and leaves all other text unchanged.
C3_FormsResolveIdentically ==
    pc = "rendered" => raw_text = Resolved(template, replacements)

\* C3 amended: the same, for a text in which every delimiter ({, }, $) belongs
\* to a placeholder {{ X }}, {{X}} or ${X} and a table whose keys and
\* replacement strings hold no delimiter.
C3_FormsResolveIdenticallyWhenClean ==
    pc = "rendered" /\ WellFormed(template) /\ CleanTable(replacements) =>
        raw_text = Resolved(template, replacements)

\* a well-formed text holding the three forms of key k has been rendered
\* under a clean table, to a text that holds its replacement string thrice
C3_Witness ==
    /\ pc = "rendered"
    /\ WellFormed(template)
    /\ CleanTable(replacements)
    /\ template = Dollar(sK) \o Spaced(sK) \o Unspaced(sK)
    /\ replacements[1].value = ListV(<<IntV(1), StrV(sA)>>)
    /\ raw_text = <<"1", ",", "a", "1", ",", "a", "1", ",", "a">>

----------------------------------------------------------------------------
(* A run of extract_network_graph over a resolved tree. *)

sT == <<"T">>
sN == <<"N">>
sP == <<"P">>
sQ == <<"Q">>
sR == <<"r">>
sC1 == <<"c", "1">>
sC2 == <<"c", "2">>
sC3 == <<"c", "3">>
sAB == <<"a", "b">>
sEndpointUpper == <<"a", "-", "C", "N", "F", "G", "W">>
sEndpointOther == <<"a", "-", "c", "n", "f", "g">>

\* elements that are no mappings
Junk == {Null, StrV(sX)}

\* the lists over S of length at most MaxElems
Lists(S) == {ListV(l) : l \in SeqsUpTo(S, MaxElems)}

RouteElems ==
    { StrV(sX),
      MapV([targetVpcEndpoint |-> StrV(sEndpointUpper),
            destinationCidrBlock |-> StrV(sC1), destination |-> StrV(sC2)]),
      MapV([targetVpcEndpoint |-> StrV(sCnfgw), destination |-> StrV(sC2)]),
      MapV([targetVpcEndpoint |-> StrV(sCnfgw),
            destinationCidrBlock |-> EmptyStr, destination |-> StrV(sC2)]),
      MapV([targetVpcEndpoint |-> StrV(sCnfgw)]),
      MapV([targetVpcEndpoint |-> StrV(sEndpointOther),
            destinationCidrBlock |-> StrV(sC1)]),
      MapV([targetVpcEndpoint |-> EmptyStr, destination |-> StrV(sC2)]),
      MapV([destinationCidrBlock |-> StrV(sC1)]),
      MapV([targetVpcEndpoint |-> Null]),
      MapV([targetVpcEndpoint |-> IntV(5)]) }

\* a transit gateway with one route table holding the routes
TgwWithRoutes(routes) ==
    MapV([name |-> StrV(sT),
          routeTables |-> ListV(<<MapV([name |-> StrV(sR), routes |-> routes])>>)])

TgwElems ==
    Junk \cup
    { MapV([name |-> StrV(sT), account |-> StrV(sA), region |-> StrV(sB),
            asn |-> IntV(5)]),
      MapV([name |-> StrV(sW),
            routeTables |->
                ListV(<<Null,
                        MapV([routes |-> ListV(<<StrV(sX)>>)]),
                        MapV([name |-> StrV(sR),
                              routes |->
                                  ListV(<<MapV([targetVpcEndpoint |-> StrV(sCnfgw)]),
                                          StrV(sX),
                                          MapV([targetVpcEndpoint |-> StrV(sEndpointUpper),
                                                destination |-> StrV(sC2)])>>)])>>)]),
      EmptyMap,
      MapV([name |-> StrV(sT), routeTables |-> Null]) }

SubnetP == MapV([name |-> StrV(sP), availabilityZone |-> StrV(sB)])
SubnetQ == MapV([name |-> StrV(sQ), az |-> StrV(sA), cidr |-> StrV(sC1)])

SubnetElems ==
    { StrV(sX),
      SubnetP,
      SubnetQ,
      MapV([name |-> StrV(sQ), availabilityZone |-> EmptyStr, az |-> StrV(sA)]),
      MapV([name |-> StrV(sP), availabilityZone |-> StrV(sAB),
            ipv4CidrBlock |-> StrV(sC2), subnetType |-> StrV(sV)]),
      MapV([name |-> StrV(sP)]),
      MapV([az |-> EmptyStr, tier |-> StrV(sW)]),
      MapV([name |-> EmptyStr, availabilityZone |-> StrV(sB)]) }

AttachmentElems ==
    { StrV(sX),
      EmptyMap,
      MapV([name |-> StrV(sA)]),
      MapV([transitGateway |-> StrV(sT)]),
      MapV([transitGateway |-> MapV([name |-> StrV(sT)])]),
      MapV([transitGateway |-> StrV(sT),
            subnets |-> ListV(<<StrV(sP), StrV(sQ)>>),
            routeTableAssociations |-> StrV(sR)]),
      MapV([name |-> StrV(sA), subnets |-> ListV(<<StrV(sQ), StrV(sX), EmptyStr>>)]),
      MapV([transitGateway |-> StrV(sT), subnets |-> Null]) }

\* the name field of a VPC: absent, empty, or a name
VpcNames == {EmptyMap, MapV([name |-> EmptyStr]), MapV([name |-> StrV(sN)])}

\* the mapping d with the field key set to x
With(d, key, x) ==
    MapV([f \in DOMAIN d.v \cup {key} |-> IF f = key THEN x ELSE d.v[f]])

VpcElems ==
    Junk \cup
    { MapV([name |-> StrV(sN), account |-> StrV(sA), region |-> StrV(sB),
            cidr |-> StrV(sC1),
            subnets |->
                ListV(<<SubnetP, StrV(sX), SubnetQ,
                        MapV([name |-> StrV(sQ), availabilityZone |-> EmptyStr,
                              az |-> StrV(sA)]),
                        MapV([name |-> StrV(sV), az |-> EmptyStr])>>),
            transitGatewayAttachments |->
                ListV(<<MapV([transitGateway |-> StrV(sT),
                              subnets |-> ListV(<<StrV(sP)>>)]),
                        Null,
                        MapV([name |-> StrV(sA)])>>)]),
      EmptyMap,
      MapV([name |-> StrV(sW), subnets |-> Null]),
      MapV([transitGatewayAttachments |-> ListV(<<EmptyMap>>)]) }

\* the cidr fields of a VPC, each absent, empty or set
CidrVpcs ==
    { MapV(cidrs @@ cidr @@ block @@ ipv4) :
        cidrs \in { <<>>, [cidrs |-> EmptyList], [cidrs |-> Null],
                    [cidrs |-> StrV(sC3)],
                    [cidrs |-> ListV(<<StrV(sT), StrV(sN)>>)] },
        cidr \in { <<>>, [cidr |-> EmptyStr], [cidr |-> Null],
                   [cidr |-> StrV(sC1)] },
        block \in { <<>>, [ipv4CidrBlock |-> StrV(sC2)] },
        ipv4 \in { <<>>, [ipv4Cidr |-> EmptyStr], [ipv4Cidr |-> StrV(sC3)] } }

DxElems ==
    Junk \cup
    { MapV([name |-> StrV(sN), account |-> StrV(sA), asn |-> IntV(5),
            virtualInterfaces |->
                ListV(<<MapV([name |-> StrV(sV), vlan |-> IntV(2)]), StrV(sX),
                        MapV([name |-> StrV(sW), jumboFrames |-> BoolV(TRUE)])>>),
            transitGatewayAssociations |->
                ListV(<<Null, MapV([name |-> StrV(sT), account |-> StrV(sA)])>>)]),
      EmptyMap,
      MapV([name |-> StrV(sW), virtualInterfaces |-> Null]),
      MapV([name |-> StrV(sW), transitGatewayAssociations |-> IntV(5)]) }

CgwElems ==
    Junk \cup
    { MapV([name |-> StrV(sN), account |-> StrV(sA), region |-> StrV(sB),
            vpnConnections |->
                ListV(<<MapV([name |-> StrV(sV), transitGateway |-> StrV(sT)]),
                        StrV(sX),
                        MapV([name |-> StrV(sW), staticRoutesOnly |-> BoolV(FALSE)])>>)]),
      EmptyMap,
      MapV([name |-> StrV(sW), vpnConnections |-> ListV(<<Null>>)]),
      MapV([name |-> StrV(sW), vpnConnections |-> Null]) }

\* the resolved trees a run starts from
NetworkConfigs ==
    { MapV([transitGateways |-> x]) :
        x \in Lists(TgwElems) \cup {Null, IntV(5), StrV(sX), EmptyMap} }
    \cup { MapV([transitGateways |-> ListV(<<TgwWithRoutes(x)>>)]) :
             x \in Lists(RouteElems) \cup {Null} }
    \cup { MapV([vpcs |-> x]) : x \in Lists(VpcElems) \cup {Null, StrV(sX)} }
    \cup { MapV([region |-> StrV(sR), vpcs |-> x]) : x \in Lists(VpcElems) }
    \cup { MapV([vpcs |-> ListV(<<vpc>>)]) : vpc \in CidrVpcs }
    \cup { MapV([vpcs |->
                   ListV(<<With(With(vpc, "subnets", x),
                                "transitGatewayAttachments",
                                ListV(<<MapV([transitGateway |-> StrV(sT),
                                              subnets |->
                                                  ListV(<<StrV(sP), StrV(sQ)>>)])>>))>>)]) :
             vpc \in VpcNames, x \in Lists(SubnetElems) }
    \cup { MapV([vpcs |->
                   ListV(<<With(With(vpc, "subnets", ListV(<<SubnetP, SubnetQ>>)),
                                "transitGatewayAttachments", x)>>)]) :
             vpc \in VpcNames, x \in Lists(AttachmentElems) }
    \cup { MapV([directConnectGateways |-> x]) :
             x \in Lists(DxElems) \cup {Null} }
    \cup { MapV([customerGateways |-> x]) : x \in Lists(CgwElems) \cup {Null} }
    \cup { Null, StrV(sX), EmptyList, EmptyMap }

InitExtract ==
    /\ pc = "transit_gateways"
    /\ network_cfg \in NetworkConfigs
    /\ transit_gateways = <<>>
    /\ vpcs = <<>>
    /\ tgw_attachments = <<>>
    /\ dx_gateways = <<>>
    /\ vpn_connections = <<>>
    /\ cnfgw_endpoints = <<>>
    /\ graph = Null
    /\ IdleBuild
    /\ IdleRender

NextExtract ==
    \/ ExtractTransitGateways
    \/ ExtractVpcs
    \/ ExtractDxGateways
    \/ ExtractVpnConnections
    \/ ExtractCnfgwEndpoints
    \/ ReturnGraph

SpecExtract == InitExtract /\ [][NextExtract]_vars

\* the mapping elements, in input order, of the list d holds under key; none
\* when d holds no list there
Mappings(d, key) ==
    IF IsDict(d) /\ key \in DOMAIN d.v /\ IsList(d.v[key])
    THEN SelectSeq(d.v[key].v, IsDict)
    ELSE <<>>

\* the field is in the mapping, with a value that is not null
Present(d, key) == key \in DOMAIN d.v /\ ~IsNone(d.v[key])

\* the VPC mappings of the tree
SrcVpcs == Mappings(network_cfg, "vpcs")

\* the attachment mappings of a VPC
SrcAttachments(vpc) == Mappings(vpc, "transitGatewayAttachments")

\* the place in tgw_attachments of attachment a of VPC n
AttachmentAt(n, a) ==
    Len(Concat(Each(SubSeq(SrcVpcs, 1, n - 1), SrcAttachments))) + a

\* the extractor returned, with one VPC entity per VPC mapping and one
\* attachment entity per attachment mapping
Returned ==
    /\ pc = "done"
    /\ Len(graph.vpcs) = Len(SrcVpcs)
    /\ Len(graph.tgw_attachments) = Len(Concat(Each(SrcVpcs, SrcAttachments)))
    /\ \A n \in 1..Len(SrcVpcs) :
          Len(graph.vpcs[n].subnets) = Len(Mappings(SrcVpcs[n], "subnets"))

\* C1 as stated, for a tree whose root is a mapping: the extractor never
\* raises, whatever kind of value a collection key or a scalar field holds.
C1_ExtractorIsTotal == IsDict(network_cfg) => pc # "raised"

\* every reference of every attachment to a subnet of its VPC is the id of
\* that subnet's entity, and that id is IdOf(vpc, subnet)
Joinable(IdOf(_, _)) ==
    \A n \in 1..Len(SrcVpcs) :
      \A a \in 1..Len(SrcAttachments(SrcVpcs[n])) :
        LET att == SrcAttachments(SrcVpcs[n])[a]
            refs == graph.tgw_attachments[AttachmentAt(n, a)].subnets
            subnets == Mappings(SrcVpcs[n], "subnets")
        IN  IsList(GetOr(att, "subnets", EmptyList)) =>
              /\ Len(refs) = Len(GetOr(att, "subnets", EmptyList).v)
              /\ \A j \in 1..Len(refs) :
                   \A m \in 1..Len(subnets) :
                     Get(subnets[m], "name") = Get(att, "subnets").v[j] =>
                       /\ refs[j] = graph.vpcs[n].subnets[m].id
                       /\ refs[j] = IdOf(SrcVpcs[n], subnets[m])

\* "<vpcId>-<subnetName>" when both names are present, else the subnet name
IdWhenPresent(vpc, subnet) ==
    IF Present(vpc, "name") /\ Present(subnet, "name")
    THEN Dashed(Get(vpc, "name"), Get(subnet, "name"))
    ELSE Get(subnet, "name")

\* "<vpcId>-<subnetName>" when both names are non-empty, else the subnet name
IdWhenNonEmpty(vpc, subnet) ==
    IF Truthy(Get(vpc, "name")) /\ Truthy(Get(subnet, "name"))
    THEN Dashed(Get(vpc, "name"), Get(subnet, "name"))
    ELSE Get(subnet, "name")

\* C5 as stated: every attachment reference to a subnet of the same VPC is
\* rewritten to exactly the id emitted for that subnet's entity, which is
\* "<vpcId>-<subnetName>" when both names are present and the subnet name
\* alone otherwise.
C5_ReferencesJoinable == Returned => Joinable(IdWhenPresent)

\* C5 amended: every attachment reference to a subnet of the same VPC is
\* rewritten to exactly the id emitted for that subnet's entity, which is
\* "<vpcId>-<subnetName>" when both names are non-empty and the subnet name
\* alone otherwise (an empty VPC name counts as no name).
C5_ReferencesJoinableNonEmpty == Returned => Joinable(IdWhenNonEmpty)

\* a named VPC and an unnamed one have each had an attachment reference to
\* one of their subnets rewritten
C5_Witness ==
    /\ Returned
    /\ \E n \in 1..Len(SrcVpcs) :
         /\ Get(SrcVpcs[n], "name") = StrV(sN)
         /\ Len(SrcAttachments(SrcVpcs[n])) > 0
         /\ Get(SrcAttachments(SrcVpcs[n])[1], "subnets")
                = ListV(<<StrV(sP), StrV(sQ)>>)
         /\ graph.tgw_attachments[AttachmentAt(n, 1)].subnets
                = <<StrV(<<"N", "-", "P">>), StrV(<<"N", "-", "Q">>)>>
         /\ Len(graph.vpcs[n].subnets) = 2
         /\ graph.vpcs[n].subnets[1].id = StrV(<<"N", "-", "P">>)

\* C6 as stated, for the attachment it names: an attachment with no name and
\* no transitGateway, in a VPC with no name, gets a null id and a null name.
C6_MissingFieldsAreNull ==
    Returned =>
      \A n \in 1..Len(SrcVpcs) :
        \A a \in 1..Len(SrcAttachments(SrcVpcs[n])) :
          LET att == SrcAttachments(SrcVpcs[n])[a]
              entry == graph.tgw_attachments[AttachmentAt(n, a)]
          IN  /\ "name" \notin DOMAIN SrcVpcs[n].v
              /\ "name" \notin DOMAIN att.v
              /\ "transitGateway" \notin DOMAIN att.v
              => IsNone(entry.id) /\ IsNone(entry.name)

\* the field is absent from the mapping or holds a list
ListOrAbsent(d, key) == key \notin DOMAIN d.v \/ IsList(d.v[key])

\* every mapping of the list d holds under key satisfies P
AllMappings(d, key, P(_)) ==
    \A i \in 1..Len(Mappings(d, key)) : P(Mappings(d, key)[i])

\* the tree is a mapping in which every collection the extractor walks is a
\* list or absent, every targetVpcEndpoint is a string or empty, and every
\* availability zone is a string or empty
ListShaped(cfg) ==
    /\ IsDict(cfg)
    /\ \A key \in {"transitGateways", "vpcs", "directConnectGateways",
                   "customerGateways"} : ListOrAbsent(cfg, key)
    /\ AllMappings(cfg, "transitGateways", LAMBDA tgw :
         /\ ListOrAbsent(tgw, "routeTables")
         /\ AllMappings(tgw, "routeTables", LAMBDA rt :
              /\ ListOrAbsent(rt, "routes")
              /\ AllMappings(rt, "routes", LAMBDA route :
                   Truthy(Get(route, "targetVpcEndpoint")) =>
                       Get(route, "targetVpcEndpoint").k = "str")))
    /\ AllMappings(cfg, "vpcs", LAMBDA vpc :
         /\ ListOrAbsent(vpc, "subnets")
         /\ ListOrAbsent(vpc, "transitGatewayAttachments")
         /\ AllMappings(vpc, "subnets", LAMBDA subnet :
              \A key \in {"availabilityZone", "az"} :
                  Truthy(Get(subnet, key)) => Get(subnet, key).k = "str")
         /\ AllMappings(vpc, "transitGatewayAttachments", LAMBDA att :
              ListOrAbsent(att, "subnets")))
    /\ AllMappings(cfg, "directConnectGateways", LAMBDA dxgw :
         /\ ListOrAbsent(dxgw, "virtualInterfaces")
         /\ ListOrAbsent(dxgw, "transitGatewayAssociations"))
    /\ AllMappings(cfg, "customerGateways", LAMBDA cgw :
         ListOrAbsent(cgw, "vpnConnections"))

\* the entities are as many as the mappings, and carry their names in order
SameNames(entities, mappings) ==
    /\ Len(entities) = Len(mappings)
    /\ \A i \in 1..Len(mappings) : entities[i].name = Get(mappings[i], "name")

\* C7: in a tree whose walked collections are lists, every collection emits
\* one entity per mapping element of its list, in input order, however many
\* elements that are no mappings lie between them, and nothing is raised.
C7_MalformedElementsSkipped ==
    ListShaped(network_cfg) =>
      /\ pc # "raised"
      /\ pc = "done" =>
           LET src == network_cfg
               SrcVpns(cgw) == Mappings(cgw, "vpnConnections")
           IN  /\ SameNames(graph.transit_gateways, Mappings(src, "transitGateways"))
               /\ SameNames(graph.vpcs, SrcVpcs)
               /\ \A n \in 1..Len(SrcVpcs) :
                    SameNames(graph.vpcs[n].subnets, Mappings(SrcVpcs[n], "subnets"))
               /\ Len(graph.tgw_attachments)
                      = Len(Concat(Each(SrcVpcs, SrcAttachments)))
               /\ \A n \in 1..Len(SrcVpcs) :
                    \A a \in 1..Len(SrcAttachments(SrcVpcs[n])) :
                      /\ graph.tgw_attachments[AttachmentAt(n, a)].vpc_id
                             = Get(SrcVpcs[n], "name")
                      /\ graph.tgw_attachments[AttachmentAt(n, a)].route_tables.tgw_association
                             = Get(SrcAttachments(SrcVpcs[n])[a], "routeTableAssociations")
               /\ SameNames(graph.dx_gateways, Mappings(src, "directConnectGateways"))
               /\ \A n \in 1..Len(Mappings(src, "directConnectGateways")) :
                    LET dxgw == Mappings(src, "directConnectGateways")[n]
                    IN  /\ SameNames(graph.dx_gateways[n].virtual_interfaces,
                                     Mappings(dxgw, "virtualInterfaces"))
                        /\ Len(graph.dx_gateways[n].tgw_associations)
                               = Len(Mappings(dxgw, "transitGatewayAssociations"))
                        /\ \A i \in 1..Len(Mappings(dxgw, "transitGatewayAssociations")) :
                             graph.dx_gateways[n].tgw_associations[i].tgw_name
                                 = Get(Mappings(dxgw, "transitGatewayAssociations")[i], "name")
               /\ SameNames(graph.vpn_connections,
                            Concat(Each(Mappings(src, "customerGateways"), SrcVpns)))

\* a vpcs list holding an element that is no mapping has yielded one entity
\* per mapping, and within one of its VPCs a subnets list of five elements
\* and an attachments list of three, one of each no mapping, have yielded
\* four subnets and two attachments
C7_Witness ==
    /\ pc = "done"
    /\ ListShaped(network_cfg)
    /\ Len(GetOr(network_cfg, "vpcs", EmptyList).v) > Len(graph.vpcs)
    /\ \E n \in 1..Len(SrcVpcs) :
          /\ Len(GetOr(SrcVpcs[n], "subnets", EmptyList).v) = 5
          /\ Len(graph.vpcs[n].subnets) = 4
          /\ Len(GetOr(SrcVpcs[n], "transitGatewayAttachments", EmptyList).v) = 3
          /\ Len(graph.tgw_attachments) = 2

\* the route has an endpoint that is a non-empty string holding "cnfgw" in
\* some mix of upper and lower case
Captured(route) ==
    /\ Get(route, "targetVpcEndpoint").k = "str"
    /\ Get(route, "targetVpcEndpoint").v # <<>>
    /\ \E i \in 1..Len(Get(route, "targetVpcEndpoint").v) :
          \A j \in 1..Len(sCnfgw) :
              /\ i + j - 1 <= Len(Get(route, "targetVpcEndpoint").v)
              /\ LowerChar(Get(route, "targetVpcEndpoint").v[i + j - 1]) = sCnfgw[j]

\* destinationCidrBlock if present, else destination
DestinationWhenPresent(route) ==
    IF Present(route, "destinationCidrBlock")
    THEN Get(route, "destinationCidrBlock")
    ELSE Get(route, "destination")

\* destinationCidrBlock if non-empty, else destination
DestinationWhenNonEmpty(route) ==
    IF Truthy(Get(route, "destinationCidrBlock"))
    THEN Get(route, "destinationCidrBlock")
    ELSE Get(route, "destination")

\* the endpoint entries the routes of the tree call for, in traversal order
ExpectedEndpoints(Destination(_)) ==
    LET OfTgw(tgw) ==
          LET OfTable(rt) ==
                LET OfRoute(route) ==
                      [id |-> Get(route, "targetVpcEndpoint"),
                       name |-> Get(route, "targetVpcEndpoint"),
                       tgw |-> Get(tgw, "name"),
                       route_table |-> Get(rt, "name"),
                       destination |-> Destination(route),
                       type |-> StrV(sPaloAltoCnfgw)]
                IN  Each(SelectSeq(Mappings(rt, "routes"), Captured), OfRoute)
          IN  Concat(Each(Mappings(tgw, "routeTables"), OfTable))
    IN  Concat(Each(Mappings(network_cfg, "transitGateways"), OfTgw))

\* C8 as stated: cnfgw_endpoints holds one entry per route whose
\* targetVpcEndpoint is non-empty and holds "cnfgw" when lowercased, in
\* traversal order, and none for any other route; an entry's id and name are
\* the raw endpoint, its tgw and route_table the names of the enclosing
\* gateway and table, its destination destinationCidrBlock if present, else
\* destination, and its type the fixed tag.
C8_EndpointsCaptured ==
    pc = "done" => graph.cnfgw_endpoints = ExpectedEndpoints(DestinationWhenPresent)

\* C8 amended: the same, with the destination being destinationCidrBlock if
\* that is non-empty, else destination.
C8_EndpointsCapturedNonEmpty ==
    pc = "done" => graph.cnfgw_endpoints = ExpectedEndpoints(DestinationWhenNonEmpty)

\* a route table holding a route with an upper-case endpoint and a route
\* whose endpoint does not match has yielded the entry of the first alone
C8_Witness ==
    /\ pc = "done"
    /\ Len(graph.cnfgw_endpoints) = 1
    /\ graph.cnfgw_endpoints[1].id = StrV(sEndpointUpper)
    /\ graph.cnfgw_endpoints[1].destination = StrV(sC1)
    /\ Len(Mappings(network_cfg, "transitGateways")) = 1
    /\ LET routes == Mappings(Mappings(Mappings(network_cfg, "transitGateways")[1],
                                       "routeTables")[1], "routes")
       IN  /\ Len(routes) = 2
           /\ Get(routes[1], "targetVpcEndpoint") = StrV(sEndpointOther)

\* the first of cidr, ipv4CidrBlock, ipv4Cidr that is present; null when
\* none is
FirstPresentCidr(vpc) ==
    IF Present(vpc, "cidr") THEN Get(vpc, "cidr")
    ELSE IF Present(vpc, "ipv4CidrBlock") THEN Get(vpc, "ipv4CidrBlock")
    ELSE IF Present(vpc, "ipv4Cidr") THEN Get(vpc, "ipv4Cidr")
    ELSE Null

\* the first of cidr, ipv4CidrBlock, ipv4Cidr that is non-empty; the value of
\* ipv4Cidr, null if it is absent, when none is
FirstNonEmptyCidr(vpc) ==
    IF Truthy(Get(vpc, "cidr")) THEN Get(vpc, "cidr")
    ELSE IF Truthy(Get(vpc, "ipv4CidrBlock")) THEN Get(vpc, "ipv4CidrBlock")
    ELSE Get(vpc, "ipv4Cidr")

\* the cidr of every VPC entity is the first element of cidrs when that is a
\* non-empty list, and Otherwise(vpc) when it is not
CidrPrecedence(Otherwise(_)) ==
    /\ Len(graph.vpcs) = Len(SrcVpcs)
    /\ \A n \in 1..Len(SrcVpcs) :
         graph.vpcs[n].cidr =
            IF Present(SrcVpcs[n], "cidrs") /\ IsList(Get(SrcVpcs[n], "cidrs"))
                  /\ Len(Get(SrcVpcs[n], "cidrs").v) > 0
            THEN Get(SrcVpcs[n], "cidrs").v[1]
            ELSE Otherwise(SrcVpcs[n])

\* C9 as stated: a VPC's cidr is the first element of cidrs when cidrs is a
\* non-empty sequence, otherwise the value of the first field present among
\* cidr, ipv4CidrBlock, ipv4Cidr, and null when none is present.
C9_CidrPrecedence == pc = "done" => CidrPrecedence(FirstPresentCidr)

\* C9 amended: a VPC's cidr is the first element of cidrs when cidrs is a
\* non-empty sequence, otherwise the value of the first field among cidr,
\* ipv4CidrBlock, ipv4Cidr whose value is non-empty, and the value of
\* ipv4Cidr (null if absent) when none is.
C9_CidrPrecedenceNonEmpty == pc = "done" => CidrPrecedence(FirstNonEmptyCidr)

\* a VPC holding both a cidrs list and a cidr has got the first element of
\* the list
C9_Witness ==
    /\ pc = "done"
    /\ Len(SrcVpcs) = 1
    /\ Len(graph.vpcs) = 1
    /\ Get(SrcVpcs[1], "cidrs") = ListV(<<StrV(sT), StrV(sN)>>)
    /\ Get(SrcVpcs[1], "cidr") = StrV(sC1)
    /\ graph.vpcs[1].cidr = StrV(sT)

\* the availability zone of a subnet: availabilityZone, else az
SrcAz(subnet) ==
    IF Truthy(Get(subnet, "availabilityZone"))
    THEN Get(subnet, "availabilityZone")
    ELSE Get(subnet, "az")

\* C10: the azs of every VPC entity are exactly the non-empty az values of
\* its subnet entities (availabilityZone, else az), without duplicates and in
\* strictly ascending order.
C10_AzsSortedDistinct ==
    pc = "done" =>
      /\ Len(graph.vpcs) = Len(SrcVpcs)
      /\ \A n \in 1..Len(SrcVpcs) :
           LET azs == graph.vpcs[n].azs
               subnets == graph.vpcs[n].subnets
               src == Mappings(SrcVpcs[n], "subnets")
           IN  /\ Len(subnets) = Len(src)
               /\ \A m \in 1..Len(src) : subnets[m].az = SrcAz(src[m])
               /\ \A j \in 1..(Len(azs) - 1) : Less(azs[j], azs[j + 1])
               /\ \A j \in 1..Len(azs) :
                    /\ Truthy(azs[j])
                    /\ \E m \in 1..Len(subnets) : subnets[m].az = azs[j]
               /\ \A m \in 1..Len(subnets) :
                    Truthy(subnets[m].az) =>
                        \E j \in 1..Len(azs) : azs[j] = subnets[m].az

\* a VPC whose subnets lie in the zones b, a, a and in none has got the
\* azs a, b
C10_Witness ==
    /\ pc = "done"
    /\ \E n \in 1..Len(graph.vpcs) :
          /\ Len(graph.vpcs[n].subnets) = 4
          /\ graph.vpcs[n].subnets[1].az = StrV(sB)
          /\ graph.vpcs[n].subnets[2].az = StrV(sA)
          /\ graph.vpcs[n].subnets[3].az = StrV(sA)
          /\ graph.vpcs[n].subnets[4].az = EmptyStr
          /\ graph.vpcs[n].azs = <<StrV(sA), StrV(sB)>>

============================================================================
